---- MODULE Spec2Model ----
(***************************************************************************)
(* Model of Leave.py: the half-day date arithmetic (get_half_day_value,    *)
(* calculate_leave_days), the clause/group extraction and boundary split   *)
(* of parse_and_split_leave, and the final cleaning of the output frame.   *)
(*                                                                         *)
(* Representation.                                                         *)
(*  - A date string such as '17/09/2025FN' is the record of its fields     *)
(*    [match, dd, mm, yyyy, hd]; match = FALSE stands for a string in      *)
(*    which the pattern of get_half_day_value finds nothing.               *)
(*  - A text is a sequence of lexemes (records with a field k): an         *)
(*    upper-case word, a number, the word 'days', '(' , ')', '-', a date   *)
(*    string, white space, a newline, or other lower-case text.            *)
(*  - Leave Days is a decimal with one fractional digit, held in tenths    *)
(*    of a day (0.5 -> 5, 3.0 -> 30) next to a NaN flag.                   *)
(***************************************************************************)
EXTENDS Integers, Sequences, FiniteSets, TLC

VARIABLES
    pc,                 \* position of the run
    row,                \* the input row (identity fields and Leave Details)
    leave_type,         \* loop variables of the group loop (lines 46, 51)
    from_dt_str_full,
    to_dt_str_full,
    authority_raw,
    records,            \* list built by parse_and_split_leave
    final_df,           \* output frame after the final cleaning
    leave_days          \* result of a direct call of calculate_leave_days

vars == <<pc, row, leave_type, from_dt_str_full, to_dt_str_full,
          authority_raw, records, final_df, leave_days>>

----------------------------------------------------------------------------
(* Bounds of the model *)

SeptSpan == 3       \* September days modelled: (31 - SeptSpan) .. 31
LastOctDay == 3     \* October days modelled: 1 .. LastOctDay

----------------------------------------------------------------------------
(* Half-day date model: get_half_day_value, calculate_leave_days *)

DateStr(d, m, y, h) == [match |-> TRUE, dd |-> d, mm |-> m, yyyy |-> y, hd |-> h]

NoMatchStr == [match |-> FALSE, dd |-> 0, mm |-> 0, yyyy |-> 0, hd |-> "FN"]

IsLeap(y) == (y % 4 = 0) /\ ((y % 100 # 0) \/ (y % 400 = 0))

DaysInMonth(y, m) ==
    IF m = 2 THEN (IF IsLeap(y) THEN 29 ELSE 28)
    ELSE IF m \in {4, 6, 9, 11} THEN 30 ELSE 31

\* datetime.strptime(date_part, '%d/%m/%Y') succeeds
StrptimeOk(s) ==
    /\ s.yyyy >= 1
    /\ s.mm \in 1..12
    /\ s.dd >= 1
    /\ s.dd <= DaysInMonth(s.yyyy, s.mm)

RECURSIVE DaysBeforeMonth(_, _)
DaysBeforeMonth(y, m) ==
    IF m = 1 THEN 0 ELSE DaysBeforeMonth(y, m - 1) + DaysInMonth(y, m - 1)

DaysBeforeYear(y) ==
    (y - 1) * 365 + ((y - 1) \div 4) - ((y - 1) \div 100) + ((y - 1) \div 400)

\* date_obj.toordinal()
ToOrdinal(s) == DaysBeforeYear(s.yyyy) + DaysBeforeMonth(s.yyyy, s.mm) + s.dd

\* raised = TRUE models the ValueError (no pattern match, or strptime fails)
get_half_day_value(date_str) ==
    IF ~date_str.match \/ ~StrptimeOk(date_str)
    THEN [raised |-> TRUE, value |-> 0, half_day_part |-> "FN"]
    ELSE [raised |-> FALSE,
          value |-> ToOrdinal(date_str) * 2 + (IF date_str.hd = "FN" THEN 0 ELSE 1),
          half_day_part |-> date_str.hd]

NaN == [nan |-> TRUE, tenths |-> 0]

Days(t) == [nan |-> FALSE, tenths |-> t]

\* total_half_days / 2, in tenths of a day
HalfDaysToDays(total_half_days) == Days(total_half_days * 5)

\* variant: the inclusive + 1 is left out
calculate_leave_days_exclusive(from_str, to_str) ==
    LET f == get_half_day_value(from_str)
        t == get_half_day_value(to_str)
    IN  IF f.raised \/ t.raised
        THEN NaN
        ELSE HalfDaysToDays(t.value - f.value)

calculate_leave_days(from_str, to_str) ==
    LET f == get_half_day_value(from_str)
        t == get_half_day_value(to_str)
    IN  IF f.raised \/ t.raised
        THEN NaN
        ELSE HalfDaysToDays((t.value - f.value) + 1)

----------------------------------------------------------------------------
(* Boundary constants and the body of the group loop *)

Sept30AN == DateStr(30, 9, 2025, "AN")

\* variant: the October part starts in the afternoon
Oct01AN == DateStr(1, 10, 2025, "AN")

Oct01FN == DateStr(1, 10, 2025, "FN")

SplittableTypes == {"LAP", "LHAP", "COL"}

sept_30_an_boundary_val == get_half_day_value(Sept30AN)

\* authority_raw.split(')'): the pieces between the ')' lexemes
RECURSIVE SplitOnClose(_, _)
SplitOnClose(s, cur) ==
    IF s = <<>> THEN <<cur>>
    ELSE IF Head(s).k = ")" THEN <<cur>> \o SplitOnClose(Tail(s), <<>>)
    ELSE SplitOnClose(Tail(s), Append(cur, Head(s)))

IsSpace(t) == t.k \in {"ws", "nl"}

RECURSIVE LStrip(_)
LStrip(s) == IF s # <<>> /\ IsSpace(Head(s)) THEN LStrip(Tail(s)) ELSE s

RECURSIVE RStrip(_)
RStrip(s) ==
    IF s # <<>> /\ IsSpace(s[Len(s)]) THEN RStrip(SubSeq(s, 1, Len(s) - 1)) ELSE s

Strip(s) == RStrip(LStrip(s))

Lex(kind) == [k |-> kind, w |-> "", d |-> NoMatchStr]

\* f"({authority_id}) {authority_name.strip()}"
SanctionAuthority(auth_raw) ==
    LET auth_parts == SplitOnClose(auth_raw, <<>>)
        authority_id == Strip(auth_parts[1])
        authority_name == IF Len(auth_parts) > 1 THEN Strip(auth_parts[2]) ELSE <<>>
    IN  <<Lex("(")>> \o authority_id \o <<Lex(")"), Lex("ws")>> \o authority_name

Segment(r, ltype, from_str, to_str, days, auth) ==
    [Name |-> r.Name, HRMS_ID |-> r.HRMS_ID, IPAS_No |-> r.IPAS_No,
     Designation |-> r.Designation, Leave_Type |-> ltype,
     From_Date |-> from_str, To_Date |-> to_str,
     Leave_Days |-> days, Sanction_authority |-> auth]

\* variant: a range that ends exactly at the boundary is split too
SplitCondition_AtBoundary(ltype, from_value, to_value) ==
    /\ ltype \in SplittableTypes
    /\ from_value <= sept_30_an_boundary_val.value
    /\ to_value >= sept_30_an_boundary_val.value

\* variant: the leave type is not consulted
SplitCondition_AnyType(ltype, from_value, to_value) ==
    /\ from_value <= sept_30_an_boundary_val.value
    /\ to_value > sept_30_an_boundary_val.value

\* the split condition of line 69
SplitCondition(ltype, from_value, to_value) ==
    /\ ltype \in SplittableTypes
    /\ from_value <= sept_30_an_boundary_val.value
    /\ to_value > sept_30_an_boundary_val.value

\* lines 51-100: the records one date-authority group appends
ProcessGroup(r, ltype, from_str, to_str, auth_raw) ==
    LET sanction_authority == SanctionAuthority(auth_raw)
        f == get_half_day_value(from_str)
        t == get_half_day_value(to_str)
    IN  IF f.raised \/ t.raised
        THEN <<>>
        ELSE IF SplitCondition(ltype, f.value, t.value)
        THEN << Segment(r, ltype, from_str, Sept30AN,
                        calculate_leave_days(from_str, Sept30AN), sanction_authority),
                Segment(r, ltype, Oct01FN, to_str,
                        calculate_leave_days(Oct01FN, to_str), sanction_authority) >>
        ELSE << Segment(r, ltype, from_str, to_str,
                        calculate_leave_days(from_str, to_str), sanction_authority) >>

----------------------------------------------------------------------------
(* The two patterns of parse_and_split_leave, over lexemes *)

W(s) == [k |-> "word", w |-> s, d |-> NoMatchStr]

D(ds) == [k |-> "date", w |-> "", d |-> ds]

Num == Lex("num")

\* [A-Z]+ can end at this lexeme: an upper-case word, or the FN/AN that ends
\* a date string
EndsUpper(t) == t.k \in {"word", "date"}

UpperRun(t) == IF t.k = "word" THEN t.w ELSE t.d.hd

\* first index >= i of a lexeme that is not white space (Len + 1 if none)
RECURSIVE SkipSpace(_, _)
SkipSpace(txt, i) ==
    IF i <= Len(txt) /\ IsSpace(txt[i]) THEN SkipSpace(txt, i + 1) ELSE i

\* variant: a greedy body \((.*)\), ended by the last ')' of the line
RECURSIVE ClauseBodyEnd_Greedy(_, _)
ClauseBodyEnd_Greedy(txt, i) ==
    IF i > Len(txt) \/ txt[i].k = "nl" THEN 0
    ELSE LET later == ClauseBodyEnd_Greedy(txt, i + 1)
         IN  IF later # 0 THEN later
             ELSE IF txt[i].k = ")" THEN i ELSE 0

\* \((.*?)\) : index of the ')' that ends the lazy body opened before i, the
\* first ')' reached before any newline; 0 if there is none
RECURSIVE ClauseBodyEnd(_, _)
ClauseBodyEnd(txt, i) ==
    IF i > Len(txt) THEN 0
    ELSE IF txt[i].k = ")" THEN i
    ELSE IF txt[i].k = "nl" THEN 0
    ELSE ClauseBodyEnd(txt, i + 1)

NoClause == [ok |-> FALSE, leave_type |-> "", body |-> <<>>, end |-> 0]

\* ([A-Z]+)\s+([\d.]+)\s+days\s+\((.*?)\) tried at lexeme i
MatchClauseAt(txt, i) ==
    LET n == Len(txt)
        a == SkipSpace(txt, i + 1)      \* the number
        b == SkipSpace(txt, a + 1)      \* 'days'
        c == SkipSpace(txt, b + 1)      \* '('
        e == ClauseBodyEnd(txt, c + 1)
    IN  IF /\ EndsUpper(txt[i])
           /\ a > i + 1 /\ a <= n /\ txt[a].k = "num"
           /\ b > a + 1 /\ b <= n /\ txt[b].k = "days"
           /\ c > b + 1 /\ c <= n /\ txt[c].k = "("
           /\ e # 0
        THEN [ok |-> TRUE, leave_type |-> UpperRun(txt[i]),
              body |-> SubSeq(txt, c + 1, e - 1), end |-> e]
        ELSE NoClause

\* re.findall of the clause pattern: leftmost, non-overlapping matches
RECURSIVE FindClauses(_, _)
FindClauses(txt, i) ==
    IF i > Len(txt) THEN <<>>
    ELSE LET m == MatchClauseAt(txt, i)
         IN  IF m.ok THEN <<m>> \o FindClauses(txt, m.end + 1)
             ELSE FindClauses(txt, i + 1)

\* \(([^)]*)\) : index of the first ')' at or after i; 0 if there is none
RECURSIVE AuthorityEnd(_, _)
AuthorityEnd(txt, i) ==
    IF i > Len(txt) THEN 0
    ELSE IF txt[i].k = ")" THEN i
    ELSE AuthorityEnd(txt, i + 1)

NoGroup == [ok |-> FALSE, from |-> NoMatchStr, to |-> NoMatchStr,
            authority_raw |-> <<>>, end |-> 0]

\* (date)-(date)\s*\(([^)]*)\) tried at lexeme i of a clause body
MatchGroupAt(txt, i) ==
    LET n == Len(txt)
        o == SkipSpace(txt, i + 3)      \* '('
        e == AuthorityEnd(txt, o + 1)
    IN  IF /\ i + 2 <= n
           /\ txt[i].k = "date" /\ txt[i + 1].k = "-" /\ txt[i + 2].k = "date"
           /\ o <= n /\ txt[o].k = "("
           /\ e # 0
        THEN [ok |-> TRUE, from |-> txt[i].d, to |-> txt[i + 2].d,
              authority_raw |-> SubSeq(txt, o + 1, e - 1), end |-> e]
        ELSE NoGroup

\* re.findall of the group pattern in a clause body
RECURSIVE FindGroups(_, _)
FindGroups(txt, i) ==
    IF i > Len(txt) THEN <<>>
    ELSE LET m == MatchGroupAt(txt, i)
         IN  IF m.ok THEN <<m>> \o FindGroups(txt, m.end + 1)
             ELSE FindGroups(txt, i + 1)

\* inner loop (line 51) over the groups of one clause
RECURSIVE GroupLoop(_, _, _)
GroupLoop(r, ltype, groups) ==
    IF groups = <<>> THEN <<>>
    ELSE LET g == Head(groups)
         IN  ProcessGroup(r, ltype, g.from, g.to, g.authority_raw)
                \o GroupLoop(r, ltype, Tail(groups))

\* outer loop (line 46) over the clauses
RECURSIVE ClauseLoop(_, _)
ClauseLoop(r, clauses) ==
    IF clauses = <<>> THEN <<>>
    ELSE LET cl == Head(clauses)
         IN  GroupLoop(r, cl.leave_type, FindGroups(cl.body, 1))
                \o ClauseLoop(r, Tail(clauses))

parse_and_split_leave(r) ==
    IF sept_30_an_boundary_val.raised THEN <<>>
    ELSE ClauseLoop(r, FindClauses(r.Leave_Details, 1))

----------------------------------------------------------------------------
(* Final cleaning of the output frame (lines 165-176) *)

\* str.replace(r'(FN|AN)$', ''): the date without its session marker
StripSession(ds) == [dd |-> ds.dd, mm |-> ds.mm, yyyy |-> ds.yyyy]

\* round(1) of a value held in tenths
Round1(days) == days

CleanRecord(rec) ==
    [rec EXCEPT !.From_Date = StripSession(rec.From_Date),
                !.To_Date = StripSession(rec.To_Date),
                !.Leave_Days = Round1(rec.Leave_Days)]

\* dropna(subset = Leave Days, From Date, To Date), then the formatting
RECURSIVE FinalClean(_)
FinalClean(data) ==
    IF data = <<>> THEN <<>>
    ELSE IF Head(data).Leave_Days.nan THEN FinalClean(Tail(data))
    ELSE <<CleanRecord(Head(data))>> \o FinalClean(Tail(data))

----------------------------------------------------------------------------
(* Inputs *)

MaxGroups == 2      \* groups in one well-formed clause of a text
MaxUnits == 2       \* units (clauses or noise) in one Leave Details text

Employee == [Name |-> "N1", HRMS_ID |-> "H1", IPAS_No |-> "I1", Designation |-> "D1"]

RowOf(details) ==
    [Name |-> Employee.Name, HRMS_ID |-> Employee.HRMS_ID,
     IPAS_No |-> Employee.IPAS_No, Designation |-> Employee.Designation,
     Leave_Details |-> details]

Sessions == {"FN", "AN"}

\* date strings that all have the shape dd/mm/yyyy(FN|AN); 31/09/2025 and
\* 29/02/2025 are not calendar dates
DateTokens ==
    { DateStr(d, 9, 2025, h) : d \in (31 - SeptSpan)..31, h \in Sessions }
    \cup { DateStr(d, 10, 2025, h) : d \in 1..LastOctDay, h \in Sessions }
    \cup { DateStr(5, 9, 2025, h) : h \in Sessions }
    \cup { DateStr(29, 2, 2024, h) : h \in Sessions }
    \cup { DateStr(29, 2, 2025, h) : h \in Sessions }
    \cup { DateStr(31, 12, 2024, h) : h \in Sessions }
    \cup { DateStr(1, 1, 2025, h) : h \in Sessions }

LeaveTypes == {"LAP", "LHAP", "COL", "CL"}

\* authority texts as the group pattern captures them (no ')' inside)
Authorities == { <<W("ABC")>>, <<Lex("ws"), W("ABC"), Lex("ws"), Lex("text")>> }

\* date ranges used in the texts
DocRanges ==
    { <<DateStr(28, 9, 2025, "FN"), DateStr(3, 10, 2025, "AN")>>,
      <<DateStr(5, 9, 2025, "AN"), DateStr(5, 9, 2025, "AN")>> }

\* from-to (ID) NAME
GroupText(rng) ==
    << D(rng[1]), Lex("-"), D(rng[2]), Lex("ws"),
       Lex("("), W("ABC"), Lex(")"), Lex("ws"), W("KUMAR") >>

RECURSIVE GroupsText(_)
GroupsText(rngs) ==
    IF Len(rngs) = 1 THEN GroupText(rngs[1])
    ELSE GroupText(rngs[1]) \o <<Lex("text"), Lex("ws")>> \o GroupsText(Tail(rngs))

ClauseHead(ltype) ==
    << W(ltype), Lex("ws"), Num, Lex("ws"), Lex("days"), Lex("ws"), Lex("(") >>

\* TYPE n days (group, group ...)
ClauseText(ltype, rngs) == ClauseHead(ltype) \o GroupsText(rngs) \o <<Lex(")")>>

RangeSeqs == UNION { [1..n -> DocRanges] : n \in 1..MaxGroups }

WellFormedForms == { [ltype |-> lt, rngs |-> rs] : lt \in {"LAP", "CL"}, rs \in RangeSeqs }

WellFormedUnits == { ClauseText(u.ltype, u.rngs) : u \in WellFormedForms }

\* the group of the specification's scenario, with mismatched parentheses
UnclosedGroup ==
    << D(DateStr(5, 9, 2025, "FN")), Lex("-"), D(DateStr(5, 9, 2025, "AN")),
       Lex("ws"), Lex("("), W("ABC"), Lex("ws"), Lex("text") >>

InvalidDateRange == <<DateStr(31, 9, 2025, "FN"), DateStr(2, 10, 2025, "AN")>>

MalformedUnits ==
    { UnclosedGroup,                                          \* bare group, no ')'
      ClauseHead("CL") \o UnclosedGroup,                      \* clause never closed
      ClauseText("CL", <<InvalidDateRange>>),                 \* not a calendar date
      <<Lex("text"), Lex("ws"), Lex("text")>>,                \* no clause shape
      <<W("CL"), Lex("ws"), Num, Lex("ws"), Lex("(")>>        \* 'days' missing
          \o GroupText(InvalidDateRange) \o <<Lex(")")>>,
      ClauseHead("LAP") \o <<Lex("nl")>>                      \* body broken by a newline
          \o GroupText(InvalidDateRange) \o <<Lex(")")>> }

Units == WellFormedUnits \cup MalformedUnits

Separator == <<Lex("text"), Lex("ws")>>

RECURSIVE Join(_)
Join(us) ==
    IF Len(us) = 1 THEN us[1]
    ELSE us[1] \o Separator \o Join(Tail(us))

Docs == { Join(us) : us \in UNION { [1..n -> Units] : n \in 1..MaxUnits } }

----------------------------------------------------------------------------
(* Operations *)

NoRecords == <<>>

\* a file is uploaded: one row of the frame, with its Leave Details text
Init ==
    /\ pc = "start"
    /\ row \in { RowOf(doc) : doc \in Docs }
    /\ leave_type = ""
    /\ from_dt_str_full = NoMatchStr
    /\ to_dt_str_full = NoMatchStr
    /\ authority_raw = <<>>
    /\ records = NoRecords
    /\ final_df = NoRecords
    /\ leave_days = NaN

\* raw_df.apply(parse_and_split_leave, axis=1) and the flattening
ParseRow ==
    /\ pc = "start"
    /\ records' = parse_and_split_leave(row)
    /\ pc' = "parsed"
    /\ UNCHANGED <<row, leave_type, from_dt_str_full, to_dt_str_full,
                   authority_raw, final_df, leave_days>>

\* to_numeric, FN/AN removal, dropna, round
FinalCleaning ==
    /\ pc = "parsed"
    /\ final_df' = FinalClean(records)
    /\ pc' = "done"
    /\ UNCHANGED <<row, leave_type, from_dt_str_full, to_dt_str_full,
                   authority_raw, records, leave_days>>

Next == ParseRow \/ FinalCleaning

Spec == Init /\ [][Next]_vars

\* one iteration of the group loop, entered with an extracted group
InitGroup ==
    /\ pc = "group"
    /\ row = RowOf(<<>>)
    /\ leave_type \in LeaveTypes
    /\ from_dt_str_full \in DateTokens
    /\ to_dt_str_full \in DateTokens
    /\ authority_raw \in Authorities
    /\ records = NoRecords
    /\ final_df = NoRecords
    /\ leave_days = NaN

GroupStep ==
    /\ pc = "group"
    /\ records' = records \o ProcessGroup(row, leave_type, from_dt_str_full,
                                          to_dt_str_full, authority_raw)
    /\ pc' = "parsed"
    /\ UNCHANGED <<row, leave_type, from_dt_str_full, to_dt_str_full,
                   authority_raw, final_df, leave_days>>

NextGroup == GroupStep \/ FinalCleaning

SpecGroup == InitGroup /\ [][NextGroup]_vars

\* a call of calculate_leave_days on two strings
InitDuration ==
    /\ pc = "call"
    /\ row = RowOf(<<>>)
    /\ leave_type = ""
    /\ from_dt_str_full \in DateTokens \cup {NoMatchStr}
    /\ to_dt_str_full \in DateTokens \cup {NoMatchStr}
    /\ authority_raw = <<>>
    /\ records = NoRecords
    /\ final_df = NoRecords
    /\ leave_days = NaN

CalcStep ==
    /\ pc = "call"
    /\ leave_days' = calculate_leave_days(from_dt_str_full, to_dt_str_full)
    /\ pc' = "returned"
    /\ UNCHANGED <<row, leave_type, from_dt_str_full, to_dt_str_full,
                   authority_raw, records, final_df>>

NextDuration == CalcStep

SpecDuration == InitDuration /\ [][NextDuration]_vars

----------------------------------------------------------------------------
(* Vocabulary of the properties: the calendar, independent of the ordinals *)

\* yyyymmdd and session as one sortable number
SortKey(ds) == ((ds.yyyy * 100 + ds.mm) * 100 + ds.dd) * 2 + (IF ds.hd = "FN" THEN 0 ELSE 1)

DateKey(dt) == (dt.yyyy * 100 + dt.mm) * 100 + dt.dd

IsCalendarDate(ds) == ds.match /\ StrptimeOk(ds)

\* the adjacent later half-day: FN -> AN of the same day, AN -> FN of the next
NextHalfDay(ds) ==
    IF ds.hd = "FN" THEN DateStr(ds.dd, ds.mm, ds.yyyy, "AN")
    ELSE IF ds.dd < DaysInMonth(ds.yyyy, ds.mm) THEN DateStr(ds.dd + 1, ds.mm, ds.yyyy, "FN")
    ELSE IF ds.mm < 12 THEN DateStr(1, ds.mm + 1, ds.yyyy, "FN")
    ELSE DateStr(1, 1, ds.yyyy + 1, "FN")

SessionOffset(ds) == IF ds.hd = "FN" THEN 0 ELSE 1

LastOfMonthAN(ds) == DateStr(DaysInMonth(ds.yyyy, ds.mm), ds.mm, ds.yyyy, "AN")

\* number of half-days from a to b, both included (a not after b), counted
\* month by month along the calendar
RECURSIVE CountHalfDays(_, _)
CountHalfDays(a, b) ==
    IF a.yyyy = b.yyyy /\ a.mm = b.mm
    THEN (b.dd - a.dd) * 2 + SessionOffset(b) - SessionOffset(a) + 1
    ELSE (DaysInMonth(a.yyyy, a.mm) - a.dd) * 2 + (1 - SessionOffset(a)) + 1
            + CountHalfDays(NextHalfDay(LastOfMonthAN(a)), b)

BothDecode == IsCalendarDate(from_dt_str_full) /\ IsCalendarDate(to_dt_str_full)

\* from <= Boundary.last < to
Straddles(a, b) == SortKey(a) <= SortKey(Sept30AN) /\ SortKey(Sept30AN) < SortKey(b)

MustSplit ==
    /\ leave_type \in {"LAP", "LHAP", "COL"}
    /\ BothDecode
    /\ Straddles(from_dt_str_full, to_dt_str_full)

Spans(rec, a, b) == rec.From_Date = a /\ rec.To_Date = b

TwoSegments ==
    /\ Len(records) = 2
    /\ Spans(records[1], from_dt_str_full, Sept30AN)
    /\ Spans(records[2], Oct01FN, to_dt_str_full)

OneSegment ==
    /\ Len(records) = 1
    /\ Spans(records[1], from_dt_str_full, to_dt_str_full)

NoStraddlingSegment ==
    \A i \in 1..Len(records) :
        records[i].Leave_Type \in {"LAP", "LHAP", "COL"}
            => ~Straddles(records[i].From_Date, records[i].To_Date)

----------------------------------------------------------------------------
C6_DurationLaw ==
    ( /\ pc = "returned"
      /\ BothDecode
      /\ SortKey(from_dt_str_full) <= SortKey(to_dt_str_full) )
    => /\ ~leave_days.nan
       /\ leave_days.tenths
            = 5 * ( (ToOrdinal(to_dt_str_full) * 2 + SessionOffset(to_dt_str_full))
                    - (ToOrdinal(from_dt_str_full) * 2 + SessionOffset(from_dt_str_full))
                    + 1 )
       /\ leave_days.tenths = 5 * CountHalfDays(from_dt_str_full, to_dt_str_full)
       /\ (from_dt_str_full = to_dt_str_full => leave_days.tenths = 5)
       /\ ( /\ DateKey(from_dt_str_full) = DateKey(to_dt_str_full)
            /\ from_dt_str_full.hd = "FN" /\ to_dt_str_full.hd = "AN" )
          => leave_days.tenths = 10

C6_Witness ==
    /\ pc = "returned"
    /\ from_dt_str_full = DateStr(29, 2, 2024, "AN")
    /\ to_dt_str_full = DateStr(1, 10, 2025, "FN")
    /\ ~leave_days.nan

----------------------------------------------------------------------------
(* Properties of a whole Leave Details text *)

Proj(rec) == <<rec.Leave_Type, rec.From_Date, rec.To_Date, rec.Leave_Days>>

ProjAll(recs) == [i \in 1..Len(recs) |-> Proj(recs[i])]

\* the segments of a well-formed clause: the group loop applied to its groups
Derivable(u) ==
    GroupLoop(row, u.ltype,
              [i \in 1..Len(u.rngs) |->
                  [from |-> u.rngs[i][1], to |-> u.rngs[i][2],
                   authority_raw |-> <<W("ABC")>>]])

ScenarioText ==
    ClauseText("LAP", << <<DateStr(28, 9, 2025, "FN"), DateStr(3, 10, 2025, "AN")>> >>)

Date(d, m, y) == [dd |-> d, mm |-> m, yyyy |-> y]

(* C4: a row whose Leave Details is the LAP clause with the range          *)
(* 28/09/2025FN-03/10/2025AN gives exactly two output segments,            *)
(* (28/09/2025, 30/09/2025, 1.5 days) and (01/10/2025, 03/10/2025, 1.5).   *)
C4_Scenario ==
    (pc = "done" /\ row.Leave_Details = ScenarioText) =>
        /\ Len(final_df) = 2
        /\ final_df[1].Leave_Type = "LAP" /\ final_df[2].Leave_Type = "LAP"
        /\ final_df[1].From_Date = Date(28, 9, 2025)
        /\ final_df[1].To_Date = Date(30, 9, 2025)
        /\ final_df[1].Leave_Days = Days(15)
        /\ final_df[2].From_Date = Date(1, 10, 2025)
        /\ final_df[2].To_Date = Date(3, 10, 2025)
        /\ final_df[2].Leave_Days = Days(15)

(* C7: for a text made of one well-formed clause and one malformed unit,   *)
(* in either order, parse_and_split_leave returns exactly the segments     *)
(* derivable from the well-formed clause.                                  *)
C7_Resilience ==
    pc = "parsed" =>
        \A u \in WellFormedForms, m \in MalformedUnits :
            row.Leave_Details \in { Join(<<ClauseText(u.ltype, u.rngs), m>>),
                                    Join(<<m, ClauseText(u.ltype, u.rngs)>>) }
                => ProjAll(records) = ProjAll(Derivable(u))

(* C8: a clause whose body holds k >= 2 well-formed groups contributes the *)
(* segments of all k groups, in text order.                                *)
C8_MultiGroup ==
    pc = "parsed" =>
        \A u \in WellFormedForms :
            (Len(u.rngs) >= 2 /\ row.Leave_Details = ClauseText(u.ltype, u.rngs))
                => /\ Len(records) >= Len(u.rngs)
                   /\ ProjAll(records) = ProjAll(Derivable(u))

HasClose(txt) == \E i \in 1..Len(txt) : txt[i].k = ")"

====
